---- MODULE Spec2Model ----
(***************************************************************************)
(* Model of easytier-core/src/peers/peer.rs: the Peer aggregate, its       *)
(* connection registry (conns), the close-event listener task spawned by   *)
(* Peer::new, and the facade operations add_peer_conn, send_msg,           *)
(* close_peer_conn and list_peer_conns, each split at the points where     *)
(* another task can interleave (every DashMap / channel / mutex call is    *)
(* one atomic step).                                                       *)
(***************************************************************************)
EXTENDS Integers, Sequences, FiniteSets, TLC

\* ---------------------------------------------------------------- bounds
NumConns == 2            \* connections that may be handed to add_peer_conn
NumTasks == 1            \* concurrent callers of the facade
MaxPending == 2          \* ids pending on the channel when a close_peer_conn starts

\* ------------------------------------------------------ program constants
ChanCap == 10            \* mpsc::channel(10)

Peers == {"A", "B"}
ConnIds == 1 .. NumConns
Tasks == 1 .. NumTasks   \* callers of the facade; task 1 also runs tests::close_peer
CloseHandler == 0        \* the task tests::close_peer spawns (close_handler)
AllTasks == Tasks \cup {CloseHandler}
None == 0                \* "no connection" / Option::None
AbsentId == NumConns + 1 \* a Uuid that no connection carries

\* the Uuid handed to Peer::new
peer_node_id(p) == IF p = "A" THEN "n1" ELSE "n2"

VARIABLES
    \* ---- per Peer
    conns,               \* ConnMap: key -> handle (a handle is named by its conn)
    close_event_chan,    \* buffer of the mpsc channel of closed conn ids
    rx_closed,           \* close_event_receiver.close() was called
    shutdown_notifier,   \* tokio Notify: a permit is stored / the waiter is woken
    alive,               \* the Peer value has not been dropped
    events,              \* events issued to global_ctx by this peer, in order
    listener_pc,         \* position of the close_event_listener task
    listener_ret,        \* its `ret`: the conn id received
    listener_conn,       \* its `conn`: the handle conns_copy.remove returned
    \* ---- per connection (PeerConn)
    close_event_sender,  \* peer whose channel set_close_event_sender wired, or "none"
    recv_loop,           \* start_recv_loop was called
    pingpong,            \* start_pingpong was called
    notifier,            \* on-close notification: "idle" | "sending" | "done"
    lock,                \* holder of the handle's Mutex: Free, a task, or a listener
    \* ---- per task
    pc,                  \* position of the task inside a facade call
    self_peer,           \* the Peer (&self) of the call in progress
    arg,                 \* conn / conn_id / conn_clone of the call in progress
    vec,                 \* list_peer_conns: `conns`, the handles still to read
    out,                 \* list_peer_conns: `ret`
    sent,                \* send_msg: <<conn, outcome>> of each PeerConn::send_msg it called
    result,              \* value returned by the task's last completed call
    guard,               \* map guard / iterator on conns the task holds when it suspends
    \* ---- tests::close_peer
    test_pc              \* position of the test body

peer_vars == <<conns, close_event_chan, rx_closed, shutdown_notifier, alive, events>>
listener_vars == <<listener_pc, listener_ret, listener_conn>>
conn_vars == <<close_event_sender, recv_loop, pingpong, notifier, lock>>
task_vars == <<pc, self_peer, arg, vec, out, sent, result, guard>>
vars == <<peer_vars, listener_vars, conn_vars, task_vars, test_pc>>

\* ---------------------------------------------------------------- helpers
Range(f) == {f[x] : x \in DOMAIN f}

\* DashMap::insert / DashMap::remove on the key -> handle map
MapInsert(m, k, h) == [x \in (DOMAIN m) \cup {k} |-> IF x = k THEN h ELSE m[x]]
MapRemove(m, k) == [x \in (DOMAIN m) \ {k} |-> m[x]]

\* PeerConn::get_conn_id and PeerConn::get_conn_info of a handle
get_conn_id(c) == c
get_conn_info(c) == [conn_id |-> get_conn_id(c)]

\* holders of a handle's tokio Mutex
Free == <<"free">>
TaskName(t) == <<"task", t>>
ListenerName(p) == <<"listener", p>>

\* the registry traversal state a task holds: none, or the entry of Peer p
\* under key k
NoGuard == <<"none">>
EntryGuard(p, k) == <<"entry", p, k>>

\* Peer::new: empty registry, open channel, listener task running
Init ==
    /\ conns = [p \in Peers |-> << >>]
    /\ close_event_chan = [p \in Peers |-> << >>]
    /\ rx_closed = [p \in Peers |-> FALSE]
    /\ shutdown_notifier = [p \in Peers |-> FALSE]
    /\ alive = [p \in Peers |-> TRUE]
    /\ events = [p \in Peers |-> << >>]
    /\ listener_pc = [p \in Peers |-> "select"]
    /\ listener_ret = [p \in Peers |-> None]
    /\ listener_conn = [p \in Peers |-> None]
    /\ close_event_sender = [c \in ConnIds |-> "none"]
    /\ recv_loop = [c \in ConnIds |-> FALSE]
    /\ pingpong = [c \in ConnIds |-> FALSE]
    /\ notifier = [c \in ConnIds |-> "idle"]
    /\ lock = [c \in ConnIds |-> Free]
    /\ pc = [t \in AllTasks |-> "idle"]
    /\ self_peer = [t \in AllTasks |-> "none"]
    /\ arg = [t \in AllTasks |-> None]
    /\ vec = [t \in AllTasks |-> << >>]
    /\ out = [t \in AllTasks |-> << >>]
    /\ sent = [t \in AllTasks |-> << >>]
    /\ result = [t \in AllTasks |-> <<"none">>]
    /\ guard = [t \in AllTasks |-> NoGuard]
    /\ test_pc = "add_local"

\* ------------------------------------------------------------ add_peer_conn
\* A call on Peer p starts: the task is at position `at` with operand a.
Call(t, p, at, a) ==
    /\ pc' = [pc EXCEPT ![t] = at]
    /\ self_peer' = [self_peer EXCEPT ![t] = p]
    /\ arg' = [arg EXCEPT ![t] = a]
    /\ result' = [result EXCEPT ![t] = <<"none">>]
    /\ sent' = [sent EXCEPT ![t] = << >>]

\* A call returns: the task goes back to idle holding the returned value.
Return(t, v) ==
    /\ pc' = [pc EXCEPT ![t] = "idle"]
    /\ self_peer' = [self_peer EXCEPT ![t] = "none"]
    /\ arg' = [arg EXCEPT ![t] = None]
    /\ result' = [result EXCEPT ![t] = v]

\* conn.set_close_event_sender(self.close_event_sender.clone())
\* The conn is moved into the call, so it is one no add_peer_conn has taken.
AddSetCloseEventSender(t, p, c) ==
    /\ pc[t] = "idle" /\ alive[p]
    /\ close_event_sender[c] = "none"
    /\ close_event_sender' = [close_event_sender EXCEPT ![c] = p]
    /\ Call(t, p, "add_recv_loop", c)
    /\ UNCHANGED <<test_pc, guard, peer_vars, listener_vars, recv_loop, pingpong, notifier, lock,
                   vec, out>>

\* conn.start_recv_loop(self.packet_recv_chan.clone())
AddStartRecvLoop(t) ==
    /\ pc[t] = "add_recv_loop"
    /\ recv_loop' = [recv_loop EXCEPT ![arg[t]] = TRUE]
    /\ pc' = [pc EXCEPT ![t] = "add_pingpong"]
    /\ UNCHANGED <<test_pc, guard, peer_vars, listener_vars, close_event_sender, pingpong, notifier,
                   lock, self_peer, arg, vec, out, sent, result>>

\* conn.start_pingpong()
AddStartPingpong(t) ==
    /\ pc[t] = "add_pingpong"
    /\ pingpong' = [pingpong EXCEPT ![arg[t]] = TRUE]
    /\ pc' = [pc EXCEPT ![t] = "add_issue_event"]
    /\ UNCHANGED <<test_pc, guard, peer_vars, listener_vars, close_event_sender, recv_loop, notifier,
                   lock, self_peer, arg, vec, out, sent, result>>

\* mutant: no PeerConnAdded event is issued
AddIssueEvent_Silent(t) ==
    /\ pc[t] = "add_issue_event"
    /\ pc' = [pc EXCEPT ![t] = "add_insert"]
    /\ UNCHANGED <<test_pc, guard, peer_vars, listener_vars, conn_vars, self_peer,
                   arg, vec, out, sent, result>>

\* mutant: the connection is inserted at this point, before any PeerConnAdded
\* event
AddIssueEvent_InsertFirst(t) ==
    /\ pc[t] = "add_issue_event"
    /\ conns' = [conns EXCEPT ![self_peer[t]] = MapInsert(@, get_conn_id(arg[t]), arg[t])]
    /\ pc' = [pc EXCEPT ![t] = "add_insert"]
    /\ UNCHANGED <<test_pc, guard, close_event_chan, rx_closed, shutdown_notifier, alive,
                   events, listener_vars, conn_vars, self_peer, arg, vec, out, sent,
                   result>>

\* self.global_ctx.issue_event(GlobalCtxEvent::PeerConnAdded(conn.get_conn_info()))
AddIssueEvent(t) ==
    /\ pc[t] = "add_issue_event"
    /\ events' = [events EXCEPT ![self_peer[t]] =
                     Append(@, <<"PeerConnAdded", get_conn_info(arg[t])>>)]
    /\ pc' = [pc EXCEPT ![t] = "add_insert"]
    /\ UNCHANGED <<test_pc, guard, conns, close_event_chan, rx_closed, shutdown_notifier, alive,
                   listener_vars, conn_vars, self_peer, arg, vec, out, sent,
                   result>>

\* mutant: every connection is inserted under one and the same key
AddInsert_SameKey(t) ==
    /\ pc[t] = "add_insert"
    /\ conns' = [conns EXCEPT ![self_peer[t]] = MapInsert(@, None, arg[t])]
    /\ Return(t, <<"unit">>)
    /\ UNCHANGED <<test_pc, guard, close_event_chan, rx_closed, shutdown_notifier, alive, events,
                   listener_vars, conn_vars, vec, out, sent>>

\* self.conns.insert(conn.get_conn_id(), Arc::new(Mutex::new(conn)))
AddInsert(t) ==
    /\ pc[t] = "add_insert"
    /\ conns' = [conns EXCEPT ![self_peer[t]] = MapInsert(@, get_conn_id(arg[t]), arg[t])]
    /\ Return(t, <<"unit">>)
    /\ UNCHANGED <<test_pc, guard, close_event_chan, rx_closed, shutdown_notifier, alive, events,
                   listener_vars, conn_vars, vec, out, sent>>

\* ----------------------------------------------------------------- send_msg
\* mutant: the error carries another Uuid than this peer's peer_node_id
SendLookup_ForeignId(t, p) ==
    /\ pc[t] = "idle" /\ alive[p]
    /\ IF DOMAIN conns[p] = {}
         THEN /\ Return(t, <<"Err", "PeerNoConnectionError",
                            peer_node_id(CHOOSE q \in Peers : q # p)>>)
              /\ sent' = [sent EXCEPT ![t] = << >>]
         ELSE \E k \in DOMAIN conns[p] : Call(t, p, "send_lock", conns[p][k])
    /\ UNCHANGED <<test_pc, guard, peer_vars, listener_vars, conn_vars, vec, out>>

\* mutant: the map guard `conn` is not dropped before the handle is locked
SendLookup_LockUnderGuard(t, p) ==
    /\ pc[t] = "idle" /\ alive[p]
    /\ IF DOMAIN conns[p] = {}
         THEN /\ Return(t, <<"Err", "PeerNoConnectionError", peer_node_id(p)>>)
              /\ sent' = [sent EXCEPT ![t] = << >>]
              /\ guard' = [guard EXCEPT ![t] = NoGuard]
         ELSE \E k \in DOMAIN conns[p] :
                 /\ Call(t, p, "send_lock", conns[p][k])
                 /\ guard' = [guard EXCEPT ![t] = EntryGuard(p, k)]
    /\ UNCHANGED <<test_pc, peer_vars, listener_vars, conn_vars, vec, out>>

\* let Some(conn) = self.conns.iter().next() else { return Err(PeerNoConnectionError) };
\* let conn_clone = conn.clone(); drop(conn);
\* iter().next() yields whichever entry the map's shard order puts first.  The
\* map guard `conn` is held over these lines only, with no suspension point, so
\* they are one step with respect to the listener's remove(); the task holds
\* no guard when it goes on to lock the handle.
SendLookup(t, p) ==
    /\ pc[t] = "idle" /\ alive[p]
    /\ IF DOMAIN conns[p] = {}
         THEN /\ Return(t, <<"Err", "PeerNoConnectionError", peer_node_id(p)>>)
              /\ sent' = [sent EXCEPT ![t] = << >>]
         ELSE \E k \in DOMAIN conns[p] : Call(t, p, "send_lock", conns[p][k])
    /\ guard' = [guard EXCEPT ![t] = NoGuard]
    /\ UNCHANGED <<test_pc, peer_vars, listener_vars, conn_vars, vec, out>>

\* mutant: the call panics when the entry it picked has left the registry
SendLock_PanicIfRemoved(t) ==
    /\ pc[t] = "send_lock"
    /\ lock[arg[t]] = Free
    /\ IF arg[t] \in Range(conns[self_peer[t]])
         THEN /\ lock' = [lock EXCEPT ![arg[t]] = TaskName(t)]
              /\ pc' = [pc EXCEPT ![t] = "send_do"]
              /\ UNCHANGED <<self_peer, arg, result>>
         ELSE /\ Return(t, <<"panic">>)
              /\ UNCHANGED lock
    /\ UNCHANGED <<test_pc, guard, peer_vars, listener_vars, close_event_sender,
                   recv_loop, pingpong, notifier, vec, out, sent>>

\* mutant: the handle is used without waiting for its Mutex
SendLock_NoWait(t) ==
    /\ pc[t] = "send_lock"
    /\ lock' = [lock EXCEPT ![arg[t]] = TaskName(t)]
    /\ pc' = [pc EXCEPT ![t] = "send_do"]
    /\ UNCHANGED <<test_pc, guard, peer_vars, listener_vars, close_event_sender, recv_loop,
                   pingpong, notifier, self_peer, arg, vec, out, sent, result>>

\* conn_clone.lock().await
SendLock(t) ==
    /\ pc[t] = "send_lock"
    /\ lock[arg[t]] = Free
    /\ lock' = [lock EXCEPT ![arg[t]] = TaskName(t)]
    /\ pc' = [pc EXCEPT ![t] = "send_do"]
    /\ UNCHANGED <<test_pc, guard, peer_vars, listener_vars, close_event_sender, recv_loop, pingpong,
                   notifier, self_peer, arg, vec, out, sent, result>>

\* mutant: when the connection's send fails, another registered connection is
\* tried and its outcome returned
SendDo_RetryOther(t) ==
    /\ pc[t] = "send_do"
    /\ lock' = [lock EXCEPT ![arg[t]] = Free]
    /\ \E r \in {<<"Ok">>, <<"Err", "Transport">>} :
          IF r # <<"Ok">> /\ Range(conns[self_peer[t]]) \ {arg[t]} # {}
            THEN \E c \in Range(conns[self_peer[t]]) \ {arg[t]} :
                    /\ sent' = [sent EXCEPT ![t] = @ \o << <<arg[t], r>>, <<c, <<"Ok">> >> >>]
                    /\ Return(t, <<"Ok">>)
            ELSE /\ sent' = [sent EXCEPT ![t] = Append(@, <<arg[t], r>>)]
                 /\ Return(t, r)
    /\ UNCHANGED <<test_pc, guard, peer_vars, listener_vars, close_event_sender, recv_loop, pingpong,
                   notifier, vec, out>>

\* .send_msg(msg).await?; Ok(())   -- the connection's send succeeds or fails,
\* the guard is released at the end of the statement
SendDo(t) ==
    /\ pc[t] = "send_do"
    /\ lock' = [lock EXCEPT ![arg[t]] = Free]
    /\ \E r \in {<<"Ok">>, <<"Err", "Transport">>} :
          /\ sent' = [sent EXCEPT ![t] = Append(@, <<arg[t], r>>)]
          /\ Return(t, r)
    /\ UNCHANGED <<test_pc, guard, peer_vars, listener_vars, close_event_sender, recv_loop, pingpong,
                   notifier, vec, out>>

\* ---------------------------------------------------------- close_peer_conn
\* mutant: the id is sent to the channel without looking it up in the registry
CloseContainsKey_NoCheck(t, p, id) ==
    /\ pc[t] = "idle" /\ alive[p]
    /\ Call(t, p, "close_send", id)
    /\ UNCHANGED <<test_pc, guard, peer_vars, listener_vars, conn_vars, vec, out>>

\* let has_key = self.conns.contains_key(conn_id); if !has_key { return Err(NotFound) }
CloseContainsKey(t, p, id) ==
    /\ pc[t] = "idle" /\ alive[p]
    /\ IF id \notin DOMAIN conns[p]
         THEN /\ Return(t, <<"Err", "NotFound">>)
              /\ sent' = [sent EXCEPT ![t] = << >>]
         ELSE Call(t, p, "close_send", id)
    /\ UNCHANGED <<test_pc, guard, peer_vars, listener_vars, conn_vars, vec, out>>

\* mutant: Ok is returned without the id having been placed on the channel
CloseSend_NoEnqueue(t) ==
    /\ pc[t] = "close_send"
    /\ Return(t, <<"Ok">>)
    /\ UNCHANGED <<test_pc, guard, peer_vars, listener_vars, conn_vars, vec, out, sent>>

\* mutant: the id is enqueued whatever the channel already holds
CloseSend_Unbounded(t) ==
    /\ pc[t] = "close_send"
    /\ IF rx_closed[self_peer[t]]
         THEN /\ Return(t, <<"panic">>)
              /\ UNCHANGED close_event_chan
         ELSE /\ close_event_chan' = [close_event_chan EXCEPT ![self_peer[t]] =
                                         Append(@, arg[t])]
              /\ Return(t, <<"Ok">>)
    /\ UNCHANGED <<test_pc, guard, conns, rx_closed, shutdown_notifier, alive, events,
                   listener_vars, conn_vars, vec, out, sent>>

\* mutant: close_peer_conn takes the entry out of the registry itself
CloseSend_RemoveDirectly(t) ==
    /\ pc[t] = "close_send"
    /\ conns' = [conns EXCEPT ![self_peer[t]] = MapRemove(@, arg[t])]
    /\ Return(t, <<"Ok">>)
    /\ UNCHANGED <<test_pc, guard, close_event_chan, rx_closed, shutdown_notifier, alive,
                   events, listener_vars, conn_vars, vec, out, sent>>

\* self.close_event_sender.send(conn_id.clone()).await.unwrap(); Ok(())
\* Suspended while the channel is full; the send fails (and unwrap panics) when
\* the receiver has been closed.
CloseSend(t) ==
    /\ pc[t] = "close_send"
    /\ rx_closed[self_peer[t]] \/ Len(close_event_chan[self_peer[t]]) < ChanCap
    /\ IF rx_closed[self_peer[t]]
         THEN /\ Return(t, <<"panic">>)
              /\ UNCHANGED close_event_chan
         ELSE /\ close_event_chan' = [close_event_chan EXCEPT ![self_peer[t]] =
                                         Append(@, arg[t])]
              /\ Return(t, <<"Ok">>)
    /\ UNCHANGED <<test_pc, guard, conns, rx_closed, shutdown_notifier, alive, events, listener_vars,
                   conn_vars, vec, out, sent>>

\* ---------------------------------------------------------- list_peer_conns
\* every order in which iter() can yield the entries of the map
IterOrders(m) ==
    {s \in [1 .. Cardinality(DOMAIN m) -> Range(m)] :
        \A i, j \in DOMAIN s : i # j => s[i] # s[j]}

\* for conn in self.conns.iter() { conns.push(conn.clone()); }
\* The iterator lives inside the loop only ("do not lock here"): it is gone
\* before the first lock().await.
ListSnapshot(t, p) ==
    /\ pc[t] = "idle" /\ alive[p]
    /\ \E s \in IterOrders(conns[p]) : vec' = [vec EXCEPT ![t] = s]
    /\ out' = [out EXCEPT ![t] = << >>]
    /\ Call(t, p, "list_lock", None)
    /\ guard' = [guard EXCEPT ![t] = NoGuard]
    /\ UNCHANGED <<test_pc, peer_vars, listener_vars, conn_vars>>

\* conn.lock().await    (for the next handle of the snapshot)
ListLock(t) ==
    /\ pc[t] = "list_lock"
    /\ vec[t] # << >>
    /\ lock[Head(vec[t])] = Free
    /\ lock' = [lock EXCEPT ![Head(vec[t])] = TaskName(t)]
    /\ pc' = [pc EXCEPT ![t] = "list_read"]
    /\ UNCHANGED <<test_pc, guard, peer_vars, listener_vars, close_event_sender, recv_loop, pingpong,
                   notifier, self_peer, arg, vec, out, sent, result>>

\* mutant: a handle whose entry has left the registry is skipped
ListRead_SkipRemoved(t) ==
    /\ pc[t] = "list_read"
    /\ out' = [out EXCEPT ![t] =
                 IF Head(vec[t]) \in Range(conns[self_peer[t]])
                   THEN Append(@, get_conn_info(Head(vec[t])))
                   ELSE @]
    /\ vec' = [vec EXCEPT ![t] = Tail(@)]
    /\ lock' = [lock EXCEPT ![Head(vec[t])] = Free]
    /\ pc' = [pc EXCEPT ![t] = "list_lock"]
    /\ UNCHANGED <<test_pc, guard, peer_vars, listener_vars, close_event_sender, recv_loop, pingpong,
                   notifier, self_peer, arg, sent, result>>

\* ret.push(conn.lock().await.get_conn_info());
ListRead(t) ==
    /\ pc[t] = "list_read"
    /\ out' = [out EXCEPT ![t] = Append(@, get_conn_info(Head(vec[t])))]
    /\ vec' = [vec EXCEPT ![t] = Tail(@)]
    /\ lock' = [lock EXCEPT ![Head(vec[t])] = Free]
    /\ pc' = [pc EXCEPT ![t] = "list_lock"]
    /\ UNCHANGED <<test_pc, guard, peer_vars, listener_vars, close_event_sender, recv_loop, pingpong,
                   notifier, self_peer, arg, sent, result>>

\* ret   (the loop over the snapshot is finished)
ListReturn(t) ==
    /\ pc[t] = "list_lock"
    /\ vec[t] = << >>
    /\ Return(t, <<"Vec", out[t]>>)
    /\ out' = [out EXCEPT ![t] = << >>]
    /\ UNCHANGED <<test_pc, guard, peer_vars, listener_vars, conn_vars, vec, sent>>

\* ------------------------------------------------- close_event_listener task
\* a PeerConn that still exists: in a registry, or owned/borrowed by a running call
\* or by the listener
ConnLive(c) ==
    \/ \E p \in Peers : c \in Range(conns[p]) \/ listener_conn[p] = c
    \/ \E t \in AllTasks :
          /\ pc[t] # "idle"
          /\ (arg[t] = c /\ pc[t] # "close_send") \/ c \in Range(vec[t])

\* every Sender of p's channel is gone: the Peer's own and the clone in each conn
AllSendersDropped(p) ==
    /\ ~alive[p]
    /\ \A c \in ConnIds : close_event_sender[c] = p =>
          ~ConnLive(c) /\ notifier[c] # "sending"

\* ret = close_event_receiver.recv() => Some(id)
ListenerRecv(p) ==
    /\ listener_pc[p] = "select"
    /\ close_event_chan[p] # << >>
    /\ listener_ret' = [listener_ret EXCEPT ![p] = Head(close_event_chan[p])]
    /\ close_event_chan' = [close_event_chan EXCEPT ![p] = Tail(@)]
    /\ listener_pc' = [listener_pc EXCEPT ![p] = "remove"]
    /\ UNCHANGED <<test_pc, conns, rx_closed, shutdown_notifier, alive, events, listener_conn,
                   conn_vars, task_vars>>

\* mutant: recv yields None as soon as the receiver is closed, whatever is
\* still buffered
ListenerRecvNone_NoDrain(p) ==
    /\ listener_pc[p] = "select"
    /\ rx_closed[p] \/ (close_event_chan[p] = << >> /\ AllSendersDropped(p))
    /\ listener_pc' = [listener_pc EXCEPT ![p] = "exit"]
    /\ UNCHANGED <<test_pc, peer_vars, listener_ret, listener_conn, conn_vars, task_vars>>

\* ret = close_event_receiver.recv() => None; if ret.is_none() { break; }
\* recv yields None once the channel is closed and drained.
ListenerRecvNone(p) ==
    /\ listener_pc[p] = "select"
    /\ close_event_chan[p] = << >>
    /\ rx_closed[p] \/ AllSendersDropped(p)
    /\ listener_pc' = [listener_pc EXCEPT ![p] = "exit"]
    /\ UNCHANGED <<test_pc, peer_vars, listener_ret, listener_conn, conn_vars, task_vars>>

\* mutant: the PeerConnRemoved event is issued for every id received, whether
\* or not remove() found an entry
ListenerRemove_EventForEveryId(p) ==
    /\ listener_pc[p] = "remove"
    /\ \A t \in AllTasks : guard[t] # EntryGuard(p, listener_ret[p])
    /\ IF listener_ret[p] \in DOMAIN conns[p]
         THEN /\ listener_conn' = [listener_conn EXCEPT ![p] = conns[p][listener_ret[p]]]
              /\ conns' = [conns EXCEPT ![p] = MapRemove(@, listener_ret[p])]
              /\ listener_pc' = [listener_pc EXCEPT ![p] = "lock"]
              /\ UNCHANGED <<listener_ret, events>>
         ELSE /\ listener_pc' = [listener_pc EXCEPT ![p] = "select"]
              /\ listener_ret' = [listener_ret EXCEPT ![p] = None]
              /\ events' = [events EXCEPT ![p] =
                     Append(@, <<"PeerConnRemoved", get_conn_info(listener_ret[p])>>)]
              /\ UNCHANGED <<conns, listener_conn>>
    /\ UNCHANGED <<test_pc, close_event_chan, rx_closed, shutdown_notifier, alive,
                   conn_vars, task_vars>>

\* mutant: the listener closes the receiver when it is handed an id that has
\* no entry
ListenerRemove_CloseOnUnknownId(p) ==
    /\ listener_pc[p] = "remove"
    /\ \A t \in AllTasks : guard[t] # EntryGuard(p, listener_ret[p])
    /\ IF listener_ret[p] \in DOMAIN conns[p]
         THEN /\ listener_conn' = [listener_conn EXCEPT ![p] = conns[p][listener_ret[p]]]
              /\ conns' = [conns EXCEPT ![p] = MapRemove(@, listener_ret[p])]
              /\ listener_pc' = [listener_pc EXCEPT ![p] = "lock"]
              /\ UNCHANGED <<listener_ret, rx_closed>>
         ELSE /\ listener_pc' = [listener_pc EXCEPT ![p] = "select"]
              /\ listener_ret' = [listener_ret EXCEPT ![p] = None]
              /\ rx_closed' = [rx_closed EXCEPT ![p] = TRUE]
              /\ UNCHANGED <<conns, listener_conn>>
    /\ UNCHANGED <<test_pc, close_event_chan, shutdown_notifier, alive, events,
                   conn_vars, task_vars>>

\* if let Some((_, conn)) = conns_copy.remove(&ret) { ... }
\* remove() waits as long as a guard on that entry is held.
ListenerRemove(p) ==
    /\ listener_pc[p] = "remove"
    /\ \A t \in AllTasks : guard[t] # EntryGuard(p, listener_ret[p])
    /\ IF listener_ret[p] \in DOMAIN conns[p]
         THEN /\ listener_conn' = [listener_conn EXCEPT ![p] = conns[p][listener_ret[p]]]
              /\ conns' = [conns EXCEPT ![p] = MapRemove(@, listener_ret[p])]
              /\ listener_pc' = [listener_pc EXCEPT ![p] = "lock"]
              /\ UNCHANGED listener_ret
         ELSE /\ listener_pc' = [listener_pc EXCEPT ![p] = "select"]
              /\ listener_ret' = [listener_ret EXCEPT ![p] = None]
              /\ UNCHANGED <<conns, listener_conn>>
    /\ UNCHANGED <<test_pc, close_event_chan, rx_closed, shutdown_notifier, alive, events,
                   conn_vars, task_vars>>

\* conn.lock().await   (inside the argument of issue_event)
ListenerLock(p) ==
    /\ listener_pc[p] = "lock"
    /\ lock[listener_conn[p]] = Free
    /\ lock' = [lock EXCEPT ![listener_conn[p]] = ListenerName(p)]
    /\ listener_pc' = [listener_pc EXCEPT ![p] = "issue_event"]
    /\ UNCHANGED <<test_pc, peer_vars, listener_ret, listener_conn, close_event_sender,
                   recv_loop, pingpong, notifier, task_vars>>

\* global_ctx_copy.issue_event(GlobalCtxEvent::PeerConnRemoved(...get_conn_info()));
\* the guard and then `conn` are dropped at the end of the statement / block
ListenerIssueEvent(p) ==
    /\ listener_pc[p] = "issue_event"
    /\ events' = [events EXCEPT ![p] =
                     Append(@, <<"PeerConnRemoved", get_conn_info(listener_conn[p])>>)]
    /\ lock' = [lock EXCEPT ![listener_conn[p]] = Free]
    /\ listener_conn' = [listener_conn EXCEPT ![p] = None]
    /\ listener_ret' = [listener_ret EXCEPT ![p] = None]
    /\ listener_pc' = [listener_pc EXCEPT ![p] = "select"]
    /\ UNCHANGED <<test_pc, conns, close_event_chan, rx_closed, shutdown_notifier, alive,
                   close_event_sender, recv_loop, pingpong, notifier, task_vars>>

\* mutant: the listener takes the shutdown permit but leaves the receiver open
ListenerShutdown_NoClose(p) ==
    /\ listener_pc[p] = "select"
    /\ shutdown_notifier[p]
    /\ shutdown_notifier' = [shutdown_notifier EXCEPT ![p] = FALSE]
    /\ UNCHANGED <<test_pc, conns, close_event_chan, rx_closed, alive, events,
                   listener_vars, conn_vars, task_vars>>

\* mutant: the listener leaves its loop as soon as it is signalled, without
\* draining the channel
ListenerShutdown_BreakAtOnce(p) ==
    /\ listener_pc[p] = "select"
    /\ shutdown_notifier[p]
    /\ shutdown_notifier' = [shutdown_notifier EXCEPT ![p] = FALSE]
    /\ rx_closed' = [rx_closed EXCEPT ![p] = TRUE]
    /\ listener_pc' = [listener_pc EXCEPT ![p] = "exit"]
    /\ UNCHANGED <<test_pc, conns, close_event_chan, alive, events, listener_ret,
                   listener_conn, conn_vars, task_vars>>

\* _ = shutdown_notifier_copy.notified() => { close_event_receiver.close(); }
ListenerShutdown(p) ==
    /\ listener_pc[p] = "select"
    /\ shutdown_notifier[p]
    /\ shutdown_notifier' = [shutdown_notifier EXCEPT ![p] = FALSE]
    /\ rx_closed' = [rx_closed EXCEPT ![p] = TRUE]
    /\ UNCHANGED <<test_pc, conns, close_event_chan, alive, events, listener_vars, conn_vars,
                   task_vars>>

\* ------------------------------------------------------------- Drop for Peer
\* mutant: the signal wakes only a listener that is waiting in its select at
\* that moment; no permit is stored for a busy one
PeerDrop_NotifyWaiters(p) ==
    /\ alive[p]
    /\ \A t \in AllTasks : self_peer[t] # p
    /\ alive' = [alive EXCEPT ![p] = FALSE]
    /\ shutdown_notifier' = [shutdown_notifier EXCEPT ![p] = (listener_pc[p] = "select")]
    /\ UNCHANGED <<test_pc, conns, close_event_chan, rx_closed, events, listener_vars,
                   conn_vars, task_vars>>

\* self.shutdown_notifier.notify_one();  The Peer is dropped by its owner, so no
\* call borrowing it is in progress.
PeerDrop(p) ==
    /\ alive[p]
    /\ \A t \in AllTasks : self_peer[t] # p
    /\ alive' = [alive EXCEPT ![p] = FALSE]
    /\ shutdown_notifier' = [shutdown_notifier EXCEPT ![p] = TRUE]
    /\ UNCHANGED <<test_pc, conns, close_event_chan, rx_closed, events, listener_vars,
                   conn_vars, task_vars>>

\* ------------------------------------------ PeerConn's on-close notification
\* The connection's background work (receive loop, keep-alive), once running,
\* detects that the connection is unusable; this happens once per connection,
\* and not after the handle was dropped (which cancels the background work).
ConnFail(c) ==
    /\ notifier[c] = "idle"
    /\ ConnLive(c)
    /\ close_event_sender[c] # "none"
    /\ recv_loop[c] /\ pingpong[c]
    /\ notifier' = [notifier EXCEPT ![c] = "sending"]
    /\ UNCHANGED <<test_pc, peer_vars, listener_vars, close_event_sender, recv_loop, pingpong,
                   lock, task_vars>>

\* The notifier places the conn id on the wired channel: suspended while the
\* channel is full, an ignored error once the receiver is closed.
NotifierSend(c) ==
    /\ notifier[c] = "sending"
    /\ rx_closed[close_event_sender[c]]
          \/ Len(close_event_chan[close_event_sender[c]]) < ChanCap
    /\ close_event_chan' =
          IF rx_closed[close_event_sender[c]]
            THEN close_event_chan
            ELSE [close_event_chan EXCEPT ![close_event_sender[c]] =
                     Append(@, get_conn_id(c))]
    /\ notifier' = [notifier EXCEPT ![c] = "done"]
    /\ UNCHANGED <<test_pc, conns, rx_closed, shutdown_notifier, alive, events, listener_vars,
                   close_event_sender, recv_loop, pingpong, lock, task_vars>>

\* Drop::drop run once more on an already dropped Peer: notify_one stores at
\* most one permit.
Refire(p) ==
    /\ ~alive[p]
    /\ shutdown_notifier' = [shutdown_notifier EXCEPT ![p] = TRUE]
    /\ UNCHANGED <<test_pc, conns, close_event_chan, rx_closed, alive, events,
                   listener_vars, conn_vars, task_vars>>

\* ---------------------------------------------------------- tests::close_peer
TestMain == 1            \* the task running the test body
local_peer == "A"
remote_peer == "B"
local_peer_conn == 1
remote_peer_conn == 2
local_conn_id == get_conn_id(local_peer_conn)

\* create_ring_tunnel_pair(): the conn at the other end of a conn's tunnel
tunnel_peer(c) == IF c = local_peer_conn THEN remote_peer_conn ELSE local_peer_conn

\* close_handler has been spawned
Spawned == test_pc \in {"wait_remote", "join", "passed", "failed"}

\* The conn at the other end of the tunnel was dropped with its handle: the
\* running background work of c detects the peer-initiated close.
RemoteClosed(c) ==
    /\ close_event_sender[tunnel_peer(c)] # "none"
    /\ ~ConnLive(tunnel_peer(c))
    /\ ConnLive(c)
    /\ ConnFail(c)

\* the facade call the test body awaits next
TestCall ==
    /\ result[TestMain] = <<"none">>
    /\ \/ test_pc = "add_local"
          /\ AddSetCloseEventSender(TestMain, local_peer, local_peer_conn)
       \/ test_pc = "add_remote"
          /\ AddSetCloseEventSender(TestMain, remote_peer, remote_peer_conn)
       \/ test_pc = "list_local" /\ ListSnapshot(TestMain, local_peer)
       \/ test_pc \in {"list_remote", "wait_remote"}
          /\ ListSnapshot(TestMain, remote_peer)

\* the test body goes on with the value the awaited call returned: the two
\* assert_eq!(.. .len(), 1), the spawn of close_handler, and the polling loop
\* `while remote_peer.list_peer_conns().await.len() != 0 { sleep }`
TestStep ==
    /\ pc[TestMain] = "idle"
    /\ result[TestMain] # <<"none">>
    /\ test_pc \in {"add_local", "add_remote", "list_local", "list_remote", "wait_remote"}
    /\ test_pc' =
          CASE test_pc = "add_local" -> "add_remote"
            [] test_pc = "add_remote" -> "list_local"
            [] test_pc = "list_local" ->
                  IF Len(result[TestMain][2]) = 1 THEN "list_remote" ELSE "failed"
            [] test_pc = "list_remote" ->
                  IF Len(result[TestMain][2]) = 1 THEN "wait_remote" ELSE "failed"
            [] test_pc = "wait_remote" ->
                  IF Len(result[TestMain][2]) # 0 THEN "wait_remote" ELSE "join"
    /\ result' = [result EXCEPT ![TestMain] = <<"none">>]
    /\ UNCHANGED <<peer_vars, listener_vars, conn_vars, pc, self_peer, arg, vec, out,
                   sent, guard>>

\* close_handler: local_peer.close_peer_conn(&local_conn_id).await
HandlerClose ==
    /\ Spawned
    /\ result[CloseHandler] = <<"none">>
    /\ CloseContainsKey(CloseHandler, local_peer, local_conn_id)

\* close_handler ends: local_peer, moved into its async block, is dropped
HandlerDrop ==
    /\ pc[CloseHandler] = "idle"
    /\ result[CloseHandler] # <<"none">>
    /\ PeerDrop(local_peer)

\* close_handler.await.unwrap().unwrap()
TestJoin ==
    /\ test_pc = "join"
    /\ pc[CloseHandler] = "idle" /\ result[CloseHandler] # <<"none">>
    /\ ~alive[local_peer]
    /\ test_pc' = IF result[CloseHandler] = <<"Ok">> THEN "passed" ELSE "failed"
    /\ UNCHANGED <<peer_vars, listener_vars, conn_vars, task_vars>>

\* the test body ends: remote_peer goes out of scope
TestDropRemote ==
    /\ test_pc \in {"passed", "failed"}
    /\ PeerDrop(remote_peer)

\* ------------------------------------------------------------ specifications
TaskStep(t) ==
    \/ AddStartRecvLoop(t) \/ AddStartPingpong(t) \/ AddIssueEvent(t) \/ AddInsert(t)
    \/ SendLock(t) \/ SendDo(t)
    \/ CloseSend(t)
    \/ ListLock(t) \/ ListRead(t) \/ ListReturn(t)

ListenerStep(p) ==
    \/ ListenerRecv(p) \/ ListenerRecvNone(p) \/ ListenerRemove(p)
    \/ ListenerLock(p) \/ ListenerIssueEvent(p) \/ ListenerShutdown(p)

\* One Peer ("A") used by NumTasks concurrent callers, with connections that
\* may fail at any time.
Next ==
    \/ \E t \in Tasks :
          \/ \E c \in ConnIds : AddSetCloseEventSender(t, "A", c)
          \/ SendLookup(t, "A")
          \/ \E id \in ConnIds \cup {AbsentId} :
                Len(close_event_chan["A"]) < MaxPending /\ CloseContainsKey(t, "A", id)
          \/ ListSnapshot(t, "A")
          \/ TaskStep(t)
    \/ ListenerStep("A")
    \/ PeerDrop("A")
    \/ \E c \in ConnIds : ConnFail(c) \/ NotifierSend(c)

Spec == Init /\ [][Next]_vars

\* What the scheduling guarantees: the runtime polls a ready task again (weak
\* fairness of each step of the listener and of the lock holders), and a waiter
\* on a tokio Mutex is served in turn even if others keep taking the lock
\* (strong fairness of the listener's lock).
ListenerFairness(p) ==
    /\ WF_vars(ListenerRecv(p)) /\ WF_vars(ListenerRecvNone(p))
    /\ WF_vars(ListenerShutdown(p)) /\ WF_vars(ListenerIssueEvent(p))
    /\ WF_vars(ListenerRemove(p)) /\ SF_vars(ListenerLock(p))

TaskFairness(t) ==
    /\ WF_vars(SendDo(t)) /\ WF_vars(ListRead(t))

FairSpec == Spec /\ ListenerFairness("A") /\ \A t \in Tasks : TaskFairness(t)

\* The same, where the destruction logic of the dropped Peer may run again.
RefireNext == Next \/ Refire("A")

RefireSpec ==
    /\ Init /\ [][RefireNext]_vars
    /\ ListenerFairness("A") /\ \A t \in Tasks : TaskFairness(t)

\* One Peer with one connection whose callers keep closing it, or an id that
\* is not registered, while the listener lags: the channel fills up.
SatNext ==
    \/ \E t \in Tasks :
          \/ AddSetCloseEventSender(t, "A", local_peer_conn)
          \/ \E id \in {local_conn_id, AbsentId} : CloseContainsKey(t, "A", id)
          \/ AddStartRecvLoop(t) \/ AddStartPingpong(t) \/ AddIssueEvent(t)
          \/ AddInsert(t) \/ CloseSend(t)
    \/ ListenerStep("A")
    \/ PeerDrop("A")
    \/ ConnFail(local_peer_conn) \/ NotifierSend(local_peer_conn)

SatSpec == Init /\ [][SatNext]_vars

\* The listener is polled again when ready, and the channel hands a freed slot
\* to its waiting senders in turn.
FairSatSpec ==
    /\ SatSpec
    /\ ListenerFairness("A")
    /\ \A t \in Tasks : SF_vars(CloseSend(t))
    /\ SF_vars(NotifierSend(local_peer_conn))

\* One Peer with one connection used by every task slot at once: concurrent
\* send_msg, list_peer_conns and close_peer_conn calls beside the listener.
ConcNext ==
    \/ \E t \in AllTasks :
          \/ AddSetCloseEventSender(t, "A", local_peer_conn)
          \/ SendLookup(t, "A")
          \/ Len(close_event_chan["A"]) < MaxPending
                /\ CloseContainsKey(t, "A", local_conn_id)
          \/ ListSnapshot(t, "A")
          \/ TaskStep(t)
    \/ ListenerRecv("A") \/ ListenerRemove("A")
    \/ ListenerLock("A") \/ ListenerIssueEvent("A")

ConcSpec == Init /\ [][ConcNext]_vars

FairConcSpec ==
    /\ ConcSpec
    /\ WF_vars(ListenerRecv("A")) /\ WF_vars(ListenerRemove("A"))
    /\ SF_vars(ListenerLock("A")) /\ WF_vars(ListenerIssueEvent("A"))
    /\ \A t \in AllTasks : TaskFairness(t) /\ SF_vars(SendLock(t))

\* tests::close_peer: two Peers, one connection between them.
TestNext ==
    \/ TestCall \/ TestStep \/ TestJoin \/ TestDropRemote
    \/ AddStartRecvLoop(TestMain) \/ AddStartPingpong(TestMain)
    \/ AddIssueEvent(TestMain) \/ AddInsert(TestMain)
    \/ ListLock(TestMain) \/ ListRead(TestMain) \/ ListReturn(TestMain)
    \/ HandlerClose \/ CloseSend(CloseHandler) \/ HandlerDrop
    \/ \E p \in Peers : ListenerStep(p)
    \/ \E c \in {local_peer_conn, remote_peer_conn} : RemoteClosed(c) \/ NotifierSend(c)

TestSpec == Init /\ [][TestNext]_vars

\* The runtime polls the test body and the woken background work of a
\* connection again; nothing is assumed about when close_handler runs or ends.
TestFairness ==
    /\ WF_vars(TestCall) /\ WF_vars(TestStep)
    /\ WF_vars(AddStartRecvLoop(TestMain)) /\ WF_vars(AddStartPingpong(TestMain))
    /\ WF_vars(AddIssueEvent(TestMain)) /\ WF_vars(AddInsert(TestMain))
    /\ WF_vars(ListLock(TestMain)) /\ WF_vars(ListRead(TestMain))
    /\ WF_vars(ListReturn(TestMain))
    /\ \A c \in {local_peer_conn, remote_peer_conn} :
          WF_vars(RemoteClosed(c)) /\ WF_vars(NotifierSend(c))

FairTestSpec == TestSpec /\ TestFairness /\ \A p \in Peers : ListenerFairness(p)

\* ------------------------------------------------------------------- claims
\* number of events of one kind issued by a peer for one connection
EventCount(log, kind, id) ==
    Cardinality({i \in DOMAIN log : log[i] = <<kind, get_conn_info(id)>>})

\* C1: however often a connection id is placed on the close-event channel, the
\* listener removes its registry entry at most once and issues at most one
\* PeerConnRemoved event for it; when the listener handles an id whose removal
\* was already done, that step changes neither the registry nor the event log.
C1_IdempotentRemoval ==
    [][\A p \in Peers : \A id \in ConnIds :
          /\ EventCount(events'[p], "PeerConnRemoved", id) <= 1
          /\ (id \in DOMAIN conns[p] /\ id \notin DOMAIN conns'[p]) =>
                /\ EventCount(events[p], "PeerConnRemoved", id) = 0
                /\ listener_conn[p] = None /\ listener_conn'[p] = conns[p][id]
          /\ ( /\ listener_pc[p] = "remove" /\ listener_ret[p] = id
               /\ listener_pc'[p] # "remove"
               /\ EventCount(events[p], "PeerConnRemoved", id) = 1 ) =>
                /\ conns' = conns /\ events' = events
                /\ listener_pc'[p] = "select"
      ]_vars

\* the listener has removed connection 1 and issued its event, and has now
\* received the id of connection 1 once more
C1_Witness ==
    /\ listener_pc["A"] = "remove" /\ listener_ret["A"] = 1
    /\ EventCount(events["A"], "PeerConnRemoved", 1) = 1
    /\ 1 \notin DOMAIN conns["A"]

\* C2: close_peer_conn on a present id returns Ok in the very step that places
\* the id on the close-event channel and that step leaves the registry alone
\* (the contains_key step removes nothing either); and an id placed on the
\* channel leads to its entry being absent from the registry.
C2_CloseInitiatesRemoval ==
    /\ [][\A t \in Tasks :
            /\ (pc[t] = "idle" /\ pc'[t] = "close_send") =>
                  /\ arg'[t] \in DOMAIN conns[self_peer'[t]]
                  /\ conns' = conns /\ close_event_chan' = close_event_chan
                  /\ result'[t] # <<"Ok">>
            /\ (pc[t] = "close_send" /\ pc'[t] # "close_send") =>
                  /\ result'[t] = <<"Ok">>
                  /\ close_event_chan'[self_peer[t]] =
                        Append(close_event_chan[self_peer[t]], arg[t])
                  /\ conns' = conns
       ]_vars
    /\ \A id \in ConnIds :
          (id \in Range(close_event_chan["A"]) /\ id \in DOMAIN conns["A"])
             ~> (id \notin DOMAIN conns["A"])

\* close_peer_conn(1) has returned Ok, its id is still on the channel and the
\* entry is still in the registry
C2_Witness ==
    /\ \E t \in Tasks : pc[t] = "idle" /\ result[t] = <<"Ok">> /\ sent[t] = << >>
    /\ 1 \in Range(close_event_chan["A"])
    /\ 1 \in DOMAIN conns["A"]
    /\ notifier[1] = "idle"

\* nothing is pending for peer p: no call in progress, the channel empty and
\* the listener suspended in its select
Quiescent(p) ==
    /\ \A t \in Tasks : pc[t] = "idle"
    /\ close_event_chan[p] = << >>
    /\ listener_pc[p] = "select"
    /\ \A c \in ConnIds : notifier[c] # "sending"

\* C3: once the on-close notifier of a connection handed to add_peer_conn has
\* placed the id on the channel of a live peer and the listener has handled
\* everything pending, the connection is absent from the registry and exactly
\* one PeerConnRemoved event was issued for it.
C3_FailureLeadsToRemoval ==
    \A c \in ConnIds :
       ( /\ close_event_sender[c] = "A" /\ notifier[c] = "done"
         /\ alive["A"] /\ ~rx_closed["A"]
         /\ Quiescent("A") ) =>
            /\ c \notin Range(conns["A"])
            /\ EventCount(events["A"], "PeerConnRemoved", c) = 1

\* total number of PeerConnRemoved events in a log
RemovedEvents(log) == Cardinality({i \in DOMAIN log : log[i][1] = "PeerConnRemoved"})

\* both ends of the test's connection are gone from their registries and each
\* peer has issued one PeerConnRemoved event, for its own end
BothEndsRemoved ==
    /\ DOMAIN conns[local_peer] = {} /\ DOMAIN conns[remote_peer] = {}
    /\ RemovedEvents(events[local_peer]) = 1
    /\ EventCount(events[local_peer], "PeerConnRemoved", local_peer_conn) = 1
    /\ RemovedEvents(events[remote_peer]) = 1
    /\ EventCount(events[remote_peer], "PeerConnRemoved", remote_peer_conn) = 1

\* C4: in tests::close_peer, once close_peer_conn of the local end has returned
\* Ok, both registries become empty with exactly one PeerConnRemoved event per
\* side, whether local_peer is dropped right away, later or never, and the
\* polling loop on remote_peer then sees an empty list; that outcome is stable,
\* no side ever issues a second PeerConnRemoved event and no assertion of the
\* test fails.
C4_EndToEndClose ==
    /\ (result[CloseHandler] = <<"Ok">>)
          ~> (BothEndsRemoved /\ test_pc \in {"join", "passed"})
    /\ [][BothEndsRemoved => BothEndsRemoved']_vars
    /\ [](\A p \in Peers : RemovedEvents(events[p]) <= 1)
    /\ [](test_pc # "failed" /\ result[CloseHandler] \in {<<"none">>, <<"Ok">>})

\* the test has passed: close_handler returned Ok, local_peer was dropped, its
\* listener has drained the channel and left its loop, and both ends are removed
C4_Witness ==
    /\ test_pc = "passed"
    /\ BothEndsRemoved
    /\ ~alive[local_peer] /\ rx_closed[local_peer]
    /\ listener_pc[local_peer] = "exit" /\ listener_pc[remote_peer] = "select"

\* C5: send_msg on a peer whose registry is empty at the lookup returns
\* PeerNoConnectionError carrying that peer's own peer_node_id in that same
\* step, calls no connection's send_msg, and leaves the registry, the channel,
\* the event log and every connection untouched.
C5_SendOnEmptyRegistry ==
    [][\A t \in Tasks : \A p \in Peers :
          (SendLookup(t, p) /\ DOMAIN conns[p] = {}) =>
             /\ pc'[t] = "idle"
             /\ result'[t] = <<"Err", "PeerNoConnectionError", peer_node_id(p)>>
             /\ sent'[t] = << >>
             /\ UNCHANGED <<peer_vars, listener_vars, conn_vars>>
      ]_vars

\* send_msg has failed with PeerNoConnectionError(n1) on a registry that is
\* empty because its connection was removed
C5_Witness ==
    /\ \E t \in Tasks :
          pc[t] = "idle" /\ result[t] = <<"Err", "PeerNoConnectionError", "n1">>
    /\ DOMAIN conns["A"] = {}
    /\ EventCount(events["A"], "PeerConnRemoved", 1) = 1

\* C6: close_peer_conn with an id that is not in the registry returns
\* Err(NotFound) in its first step, whatever the channel holds (it can always
\* take that step, also when the channel is full), and that step leaves the
\* registry, the channel, the event log and every connection as they were; a
\* call waiting to send never carries an id that no connection has.
C6_CloseAbsentId ==
    /\ [][\A t \in Tasks : \A id \in ConnIds \cup {AbsentId} :
            (CloseContainsKey(t, "A", id) /\ id \notin DOMAIN conns["A"]) =>
               /\ pc'[t] = "idle"
               /\ result'[t] = <<"Err", "NotFound">>
               /\ UNCHANGED <<peer_vars, listener_vars, conn_vars>>
       ]_vars
    /\ [](\A t \in Tasks : \A id \in ConnIds \cup {AbsentId} :
            (pc[t] = "idle" /\ alive["A"] /\ id \notin DOMAIN conns["A"]) =>
               ENABLED CloseContainsKey(t, "A", id))
    /\ [](\A t \in Tasks : pc[t] = "close_send" => arg[t] \in ConnIds)

\* close_peer_conn of an absent id has returned NotFound while the channel
\* holds ChanCap ids
C6_Witness ==
    /\ Len(close_event_chan["A"]) = ChanCap
    /\ \E t \in Tasks : pc[t] = "idle" /\ result[t] = <<"Err", "NotFound">>

\* C7 as claimed: when the listener has removed a connection (and issued its
\* event) after list_peer_conns took its snapshot and before list_peer_conns
\* locked that handle, the read of that handle adds nothing to the result.
C7_RemovedEntryOmitted ==
    [][\A t \in Tasks :
          ( /\ pc[t] = "list_read" /\ pc'[t] # "list_read"
            /\ Head(vec[t]) \notin Range(conns[self_peer[t]])
            /\ EventCount(events[self_peer[t]], "PeerConnRemoved", Head(vec[t])) = 1 )
          => get_conn_info(Head(vec[t])) \notin Range(out'[t])
      ]_vars

\* C7 amended: list_peer_conns reads every handle of its snapshot, in snapshot
\* order, whether or not its entry is still in the registry, and returns exactly
\* those infos: a connection removed between the snapshot and the read is still
\* in the returned list.
C7_RemovedEntryStillListed ==
    [][\A t \in Tasks :
          /\ (pc[t] = "list_read" /\ pc'[t] # "list_read") =>
                /\ out'[t] = Append(out[t], get_conn_info(Head(vec[t])))
                /\ vec'[t] = Tail(vec[t])
                /\ pc'[t] = "list_lock"
          /\ (pc[t] = "list_lock" /\ pc'[t] = "idle") =>
                /\ vec[t] = << >>
                /\ result'[t] = <<"Vec", out[t]>>
      ]_vars

\* list_peer_conns holds the lock of a snapshot handle whose entry the listener
\* has already removed and announced, and is about to read it
C7_Witness ==
    \E t \in Tasks :
       /\ pc[t] = "list_read"
       /\ Head(vec[t]) \notin Range(conns["A"])
       /\ EventCount(events["A"], "PeerConnRemoved", Head(vec[t])) = 1

\* no entry has been taken out of p's registry so far
NoRemoval(p) ==
    /\ listener_conn[p] = None
    /\ \A c \in ConnIds : EventCount(events[p], "PeerConnRemoved", c) = 0

\* the connections whose add_peer_conn on p has returned
AddedConns(p) ==
    {c \in ConnIds : /\ close_event_sender[c] = p
                     /\ ~\E t \in Tasks : arg[t] = c /\ pc[t] \in
                           {"add_recv_loop", "add_pingpong", "add_issue_event",
                            "add_insert"}}

\* the conn ids of a list of infos
InfoIds(infos) == {infos[i].conn_id : i \in DOMAIN infos}

\* C8: as long as nothing has been removed, the registry holds exactly the
\* connections whose add_peer_conn has returned, each under its own id; the
\* snapshot of list_peer_conns holds each registry entry exactly once, and the
\* list returned has one info per snapshot handle.
C8_ListAfterAdds ==
    /\ [](\A p \in Peers : NoRemoval(p) =>
             /\ DOMAIN conns[p] = AddedConns(p)
             /\ \A k \in DOMAIN conns[p] : get_conn_id(conns[p][k]) = k)
    /\ [][\A t \in Tasks :
            /\ (pc[t] = "idle" /\ pc'[t] = "list_lock") =>
                  /\ Len(vec'[t]) = Cardinality(DOMAIN conns[self_peer'[t]])
                  /\ Range(vec'[t]) = Range(conns[self_peer'[t]])
                  /\ out'[t] = << >>
            /\ (pc[t] \in {"list_lock", "list_read"} /\ pc'[t] # "idle") =>
                  /\ Len(out'[t]) + Len(vec'[t]) = Len(out[t]) + Len(vec[t])
                  /\ InfoIds(out'[t]) \cup Range(vec'[t]) =
                        InfoIds(out[t]) \cup Range(vec[t])
            /\ (pc[t] = "list_lock" /\ pc'[t] = "idle") =>
                  vec[t] = << >> /\ result'[t] = <<"Vec", out[t]>>
       ]_vars

\* both connections were added, nothing was removed, and list_peer_conns has
\* returned two infos
C8_Witness ==
    /\ NoRemoval("A")
    /\ DOMAIN conns["A"] = ConnIds
    /\ \E t \in Tasks :
          /\ pc[t] = "idle" /\ result[t][1] = "Vec"
          /\ Len(result[t][2]) = NumConns
          /\ InfoIds(result[t][2]) = ConnIds

\* C9: dropping the Peer stores the shutdown permit in one step that does not
\* depend on where the listener is and touches nothing of the listener; once
\* the Peer is dropped the listener eventually leaves its loop and stays out of
\* it; and signalling again while the permit is stored changes nothing, while
\* a signal taken after the receiver was closed changes only the permit.
C9_ShutdownTerminatesListener ==
    /\ (~alive["A"]) ~> (listener_pc["A"] = "exit")
    /\ [](( alive["A"] /\ \A t \in AllTasks : self_peer[t] # "A" ) =>
             ENABLED PeerDrop("A"))
    /\ [][ /\ PeerDrop("A") =>
                /\ shutdown_notifier'["A"]
                /\ UNCHANGED <<listener_vars, rx_closed, conns, close_event_chan>>
           /\ (Refire("A") /\ shutdown_notifier["A"]) => UNCHANGED vars
           /\ (ListenerShutdown("A") /\ rx_closed["A"]) =>
                UNCHANGED <<conns, close_event_chan, rx_closed, alive, events,
                            listener_vars, conn_vars, task_vars>>
           /\ listener_pc["A"] = "exit" =>
                UNCHANGED <<listener_vars, conns, events, rx_closed>>
       ]_vars

\* the Peer has been dropped and its listener is busy with a removal: the
\* permit is stored and the listener is not in its select
C9_Witness ==
    /\ ~alive["A"] /\ shutdown_notifier["A"] /\ ~rx_closed["A"]
    /\ listener_pc["A"] \in {"remove", "lock", "issue_event"}

\* C12: a key leaves a registry only in the listener's remove of the id it
\* received, which takes out that one key and keeps its handle; the event log
\* only grows, and a PeerConnRemoved event is appended only by the listener, for
\* the handle it removed while processing that same received id.  Every other
\* step (add_peer_conn, send_msg, close_peer_conn, list_peer_conns, a notifier,
\* the drop of the Peer) leaves the keys and the PeerConnRemoved events alone.
C12_ListenerSoleRemover ==
    /\ [][\A p \in Peers :
            /\ (DOMAIN conns[p] \ DOMAIN conns'[p] # {}) =>
                  /\ listener_pc[p] = "remove" /\ listener_pc'[p] = "lock"
                  /\ DOMAIN conns[p] \ DOMAIN conns'[p] = {listener_ret[p]}
                  /\ listener_conn'[p] = conns[p][listener_ret[p]]
                  /\ listener_ret'[p] = listener_ret[p]
                  /\ events' = events
            /\ (events'[p] # events[p]) =>
                  /\ Len(events'[p]) = Len(events[p]) + 1
                  /\ events[p] = SubSeq(events'[p], 1, Len(events[p]))
            /\ (RemovedEvents(events'[p]) # RemovedEvents(events[p])) =>
                  /\ listener_pc[p] = "issue_event" /\ listener_pc'[p] = "select"
                  /\ events'[p] = Append(events[p],
                         <<"PeerConnRemoved", get_conn_info(listener_conn[p])>>)
                  /\ conns' = conns
       ]_vars
    /\ [](\A p \in Peers :
             listener_pc[p] \in {"lock", "issue_event"} =>
                /\ listener_conn[p] \in ConnIds
                /\ get_conn_id(listener_conn[p]) = listener_ret[p]
                /\ EventCount(events[p], "PeerConnRemoved", listener_conn[p]) = 0)
    /\ [](\A p \in Peers :
             listener_pc[p] \notin {"lock", "issue_event"} => listener_conn[p] = None)

\* close_peer_conn(1) has returned Ok and the failure notifier of connection 1
\* has run as well; the listener has removed the entry and is about to issue
\* the one PeerConnRemoved event, the other connection stays registered
C12_Witness ==
    /\ listener_pc["A"] = "issue_event" /\ listener_conn["A"] = 1
    /\ DOMAIN conns["A"] = {2}
    /\ notifier[1] = "done"
    /\ \E t \in Tasks : pc[t] = "idle" /\ result[t] = <<"Ok">> /\ sent[t] = << >>

\* C13: closing the receiver discards nothing that is buffered, and nothing is
\* added to a closed channel; the listener leaves its loop only from its select
\* with the channel empty; so every id buffered when the receiver is closed is
\* still received, and if its entry is registered the entry is removed and its
\* PeerConnRemoved event issued, before the listener is out of its loop.
C13_DrainOnShutdown ==
    /\ [][ /\ ListenerShutdown("A") => close_event_chan' = close_event_chan
           /\ (rx_closed["A"] /\ close_event_chan'["A"] # close_event_chan["A"]) =>
                 /\ close_event_chan["A"] # << >>
                 /\ close_event_chan'["A"] = Tail(close_event_chan["A"])
                 /\ listener_ret'["A"] = Head(close_event_chan["A"])
           /\ (listener_pc["A"] # "exit" /\ listener_pc'["A"] = "exit") =>
                 /\ listener_pc["A"] = "select"
                 /\ close_event_chan["A"] = << >>
       ]_vars
    /\ [](listener_pc["A"] = "exit" =>
             close_event_chan["A"] = << >> /\ listener_conn["A"] = None)
    /\ \A id \in ConnIds :
          (rx_closed["A"] /\ id \in Range(close_event_chan["A"])
             /\ id \in DOMAIN conns["A"])
          ~> ( /\ id \notin DOMAIN conns["A"]
               /\ EventCount(events["A"], "PeerConnRemoved", id) = 1
               /\ listener_pc["A"] # "exit" )
    /\ \A id \in ConnIds :
          (rx_closed["A"] /\ id \in Range(close_event_chan["A"]))
             ~> (listener_ret["A"] = id /\ listener_pc["A"] = "remove")

\* the listener took the shutdown branch first: the receiver is closed while
\* the id of a registered connection is still buffered
C13_Witness ==
    /\ rx_closed["A"] /\ listener_pc["A"] = "select"
    /\ close_event_chan["A"] # << >>
    /\ Head(close_event_chan["A"]) \in DOMAIN conns["A"]

\* C14: the receiver is closed only by the listener taking the shutdown permit,
\* and the permit exists only once the Peer was dropped; so as long as the Peer
\* is alive the receiver is open and the listener is in its loop, every send of
\* close_peer_conn on the channel succeeds (Ok, the id enqueued) and the unwrap
\* never panics.
C14_ChannelOpenWhileAlive ==
    /\ [](\A p \in Peers :
             /\ (rx_closed[p] \/ shutdown_notifier[p] \/ listener_pc[p] = "exit")
                   => ~alive[p]
             /\ \A t \in AllTasks : self_peer[t] = p => alive[p])
    /\ [](\A t \in AllTasks : result[t] # <<"panic">>)
    /\ [][ /\ \A p \in Peers : (~rx_closed[p] /\ rx_closed'[p]) =>
                 /\ shutdown_notifier[p] /\ ~alive[p]
                 /\ listener_pc[p] = "select"
           /\ \A t \in AllTasks : CloseSend(t) =>
                 /\ ~rx_closed[self_peer[t]] /\ alive[self_peer[t]]
                 /\ result'[t] = <<"Ok">>
                 /\ close_event_chan'[self_peer[t]] =
                       Append(close_event_chan[self_peer[t]], arg[t])
       ]_vars

\* close_peer_conn of a present id has enqueued it and returned Ok after the
\* listener had already handled another removal; the Peer is alive, the
\* receiver open
C14_Witness ==
    /\ alive["A"] /\ ~rx_closed["A"] /\ listener_pc["A"] = "select"
    /\ EventCount(events["A"], "PeerConnRemoved", 1) = 1
    /\ close_event_chan["A"] = <<2>> /\ 2 \in DOMAIN conns["A"]
    /\ \E t \in Tasks : pc[t] = "idle" /\ result[t] = <<"Ok">> /\ sent[t] = << >>

\* the steps of add_peer_conn on connection c completed so far
Wired(c, p) == close_event_sender[c] = p
Started(c) == recv_loop[c] /\ pingpong[c]
Announced(c, p) == EventCount(events[p], "PeerConnAdded", c) = 1

\* C15: add_peer_conn goes through wiring, start_recv_loop, start_pingpong,
\* the PeerConnAdded event and the insertion in that order, each step finding
\* the earlier ones done; and every entry of a registry is stored under its
\* own conn id, is wired to that peer's channel, has both background tasks
\* started and has had its PeerConnAdded event issued.
C15_AddOrder ==
    /\ [](\A p \in Peers : \A k \in DOMAIN conns[p] :
             /\ get_conn_id(conns[p][k]) = k
             /\ Wired(conns[p][k], p) /\ Started(conns[p][k])
             /\ Announced(conns[p][k], p))
    /\ [](\A t \in AllTasks :
             /\ pc[t] \in {"add_recv_loop", "add_pingpong", "add_issue_event",
                            "add_insert"} =>
                   Wired(arg[t], self_peer[t]) /\ arg[t] \notin Range(conns[self_peer[t]])
             /\ pc[t] = "add_recv_loop" => ~recv_loop[arg[t]] /\ ~pingpong[arg[t]]
             /\ pc[t] = "add_pingpong" => recv_loop[arg[t]] /\ ~pingpong[arg[t]]
             /\ pc[t] = "add_issue_event" =>
                   Started(arg[t]) /\ ~Announced(arg[t], self_peer[t])
             /\ pc[t] = "add_insert" =>
                   Started(arg[t]) /\ Announced(arg[t], self_peer[t]))
    /\ [][\A t \in AllTasks :
            /\ (pc[t] = "idle" /\ pc'[t] # "idle" /\ close_event_sender' # close_event_sender)
                  => pc'[t] = "add_recv_loop"
            /\ (pc[t] = "add_recv_loop" /\ pc'[t] # pc[t]) => pc'[t] = "add_pingpong"
            /\ (pc[t] = "add_pingpong" /\ pc'[t] # pc[t]) => pc'[t] = "add_issue_event"
            /\ (pc[t] = "add_issue_event" /\ pc'[t] # pc[t]) => pc'[t] = "add_insert"
            /\ (pc[t] = "add_insert" /\ pc'[t] # pc[t]) =>
                  /\ pc'[t] = "idle"
                  /\ conns'[self_peer[t]] =
                        MapInsert(conns[self_peer[t]], get_conn_id(arg[t]), arg[t])
       ]_vars
    /\ [][\A p \in Peers :
            (DOMAIN conns'[p] \ DOMAIN conns[p] # {}) =>
               \E t \in AllTasks :
                  pc[t] = "add_insert" /\ pc'[t] = "idle" /\ self_peer[t] = p
       ]_vars

\* connection 1 is registered while add_peer_conn of connection 2 has issued
\* its event and is about to insert it
C15_Witness ==
    /\ DOMAIN conns["A"] = {1}
    /\ \E t \in Tasks : pc[t] = "add_insert" /\ arg[t] = 2
    /\ Announced(2, "A") /\ Started(2)

\* C16: a task that waits for or holds the lock of a connection holds no guard
\* or iterator on the registry: send_msg and list_peer_conns have dropped it
\* in the step that took the handle(s), and the listener locks a handle only
\* after its entry is out of the registry.  So the listener's remove never has
\* to wait, whoever holds or waits for a lock, and whoever holds a lock can
\* always take its next step and release it.
C16_NoLockUnderGuard ==
    /\ [](\A t \in AllTasks :
             pc[t] \in {"send_lock", "send_do", "list_lock", "list_read"} =>
                guard[t] = NoGuard)
    /\ [](\A p \in Peers :
             /\ listener_pc[p] \in {"lock", "issue_event"} =>
                   listener_conn[p] \notin Range(conns[p])
             /\ listener_pc[p] = "remove" => ENABLED ListenerRemove(p))
    /\ [](\A t \in AllTasks :
             /\ pc[t] = "send_do" => ENABLED SendDo(t)
             /\ pc[t] = "list_read" => ENABLED ListRead(t))
    /\ [](\A p \in Peers :
             listener_pc[p] = "issue_event" => ENABLED ListenerIssueEvent(p))

\* the listener is about to remove the entry of the only connection while one
\* send_msg holds that connection's lock and a list_peer_conns waits for it
C16_Witness ==
    /\ listener_pc["A"] = "remove" /\ listener_ret["A"] = local_conn_id
    /\ local_conn_id \in DOMAIN conns["A"]
    /\ \E t, u \in AllTasks :
          /\ pc[t] = "send_do" /\ arg[t] = local_peer_conn
          /\ pc[u] = "list_lock" /\ vec[u] = <<local_peer_conn>>

\* C17: the listener's taking of the shutdown permit closes the receiver; from
\* then on nothing is added to the channel (it only shrinks by the listener's
\* recv), a notifier that is sending, also one that was suspended on the full
\* channel, can always complete, its send failing without enqueuing, and no
\* close_peer_conn is waiting on the channel.
C17_NoProducerBlockedAfterClose ==
    /\ [][\A p \in Peers :
            /\ (shutdown_notifier[p] /\ ~shutdown_notifier'[p]) => rx_closed'[p]
            /\ rx_closed[p] =>
                  /\ rx_closed'[p]
                  /\ close_event_chan'[p] \in
                        {close_event_chan[p]}
                          \cup (IF close_event_chan[p] = << >> THEN {}
                                ELSE {Tail(close_event_chan[p])})
       ]_vars
    /\ [][\A c \in ConnIds :
            (NotifierSend(c) /\ rx_closed[close_event_sender[c]]) =>
               close_event_chan' = close_event_chan /\ notifier'[c] = "done"
       ]_vars
    /\ [](\A c \in ConnIds :
             (notifier[c] = "sending" /\ rx_closed[close_event_sender[c]]) =>
                ENABLED NotifierSend(c))
    /\ [](\A t \in AllTasks : pc[t] = "close_send" => ~rx_closed[self_peer[t]])

\* the receiver has been closed while the channel was full and the notifier of
\* the connection was suspended on it
C17_Witness ==
    /\ rx_closed["A"]
    /\ Len(close_event_chan["A"]) = ChanCap
    /\ notifier[local_peer_conn] = "sending"

\* C18: a channel never holds more than ChanCap ids; while it holds ChanCap
\* (and the receiver is open) a close_peer_conn at its send cannot take that
\* step, has returned nothing and nothing is added to the channel; as soon as
\* the channel holds fewer the send can be taken; and every close_peer_conn at
\* its send eventually returns Ok, every sending notifier eventually is done.
C18_BoundedChannel ==
    /\ [](\A p \in Peers : Len(close_event_chan[p]) <= ChanCap)
    /\ [](\A t \in Tasks :
             pc[t] = "close_send" /\ ~rx_closed[self_peer[t]] =>
                /\ result[t] = <<"none">>
                /\ (ENABLED CloseSend(t))
                      <=> (Len(close_event_chan[self_peer[t]]) < ChanCap))
    /\ [][\A p \in Peers :
            Len(close_event_chan[p]) = ChanCap =>
               close_event_chan'[p] \in {close_event_chan[p], Tail(close_event_chan[p])}
       ]_vars
    /\ \A t \in Tasks :
          (pc[t] = "close_send") ~> (pc[t] = "idle" /\ result[t] = <<"Ok">>)
    /\ \A c \in ConnIds : (notifier[c] = "sending") ~> (notifier[c] = "done")

\* close_peer_conn is suspended at its send: the channel holds ChanCap ids and
\* the receiver is open
C18_Witness ==
    /\ Len(close_event_chan["A"]) = ChanCap /\ ~rx_closed["A"]
    /\ \E t \in Tasks : pc[t] = "close_send" /\ result[t] = <<"none">>

\* the handle send_msg of task t picked is no longer in the registry
Detached(t) == arg[t] \notin Range(conns[self_peer[t]])

\* C19: a send_msg whose picked entry the listener has removed before the call
\* has the lock still locks that handle as soon as the lock is free, makes its
\* one send on it and returns that send's outcome, never a panic, and it does
\* return; the listener's remove of an entry can be taken while a send_msg
\* holds that connection's lock, and only its lock step, before the event,
\* waits for the lock.
C19_SendOnRemovedEntry ==
    /\ [][\A t \in AllTasks :
            /\ (pc[t] = "send_lock" /\ Detached(t) /\ pc'[t] # "send_lock") =>
                  /\ pc'[t] = "send_do" /\ arg'[t] = arg[t]
                  /\ lock'[arg[t]] = TaskName(t)
            /\ (pc[t] = "send_do" /\ Detached(t) /\ pc'[t] # "send_do") =>
                  /\ pc'[t] = "idle"
                  /\ result'[t] \in {<<"Ok">>, <<"Err", "Transport">>}
                  /\ sent'[t] = << <<arg[t], result'[t]>> >>
       ]_vars
    /\ [](\A t \in AllTasks :
             /\ result[t] # <<"panic">>
             /\ (pc[t] = "send_lock" /\ Detached(t) /\ lock[arg[t]] = Free) =>
                   ENABLED SendLock(t))
    /\ [](\A p \in Peers :
             /\ listener_pc[p] = "remove" => ENABLED ListenerRemove(p)
             /\ listener_pc[p] = "lock" =>
                   /\ EventCount(events[p], "PeerConnRemoved", listener_conn[p]) = 0
                   /\ (ENABLED ListenerLock(p)) <=> (lock[listener_conn[p]] = Free))
    /\ \A t \in AllTasks :
          (pc[t] = "send_lock" /\ Detached(t))
             ~> (pc[t] = "idle" /\ Len(sent[t]) = 1 /\ result[t] = sent[t][1][2])

\* send_msg has picked the connection and the listener has removed and
\* announced it before the call got the lock
C19_Witness ==
    /\ DOMAIN conns["A"] = {}
    /\ EventCount(events["A"], "PeerConnRemoved", local_peer_conn) = 1
    /\ \E t \in AllTasks :
          pc[t] = "send_lock" /\ arg[t] = local_peer_conn /\ lock[arg[t]] = Free

\* C20: in the event log of a peer every PeerConnRemoved event of a connection
\* comes after a PeerConnAdded event of the same connection, and at every
\* moment there are at most as many PeerConnRemoved as PeerConnAdded events of
\* a connection.
C20_EventOrder ==
    \A p \in Peers : \A id \in ConnIds :
       /\ EventCount(events[p], "PeerConnRemoved", id)
             <= EventCount(events[p], "PeerConnAdded", id)
       /\ \A j \in DOMAIN events[p] :
             events[p][j] = <<"PeerConnRemoved", get_conn_info(id)>> =>
                \E i \in 1 .. (j - 1) :
                   events[p][i] = <<"PeerConnAdded", get_conn_info(id)>>

\* both connections were added and both removed, the second one added only
\* after the first one's removal was announced
C20_Witness ==
    /\ Len(events["A"]) = 4
    /\ events["A"][2][1] = "PeerConnRemoved" /\ events["A"][4][1] = "PeerConnRemoved"

\* the tasks inside the critical section of connection c: between lock().await
\* and the release of the guard in send_msg, in list_peer_conns and in the
\* listener
Holders(c) ==
    {TaskName(t) : t \in {u \in AllTasks : pc[u] = "send_do" /\ arg[u] = c}}
      \cup {TaskName(t) : t \in {u \in AllTasks : pc[u] = "list_read" /\ Head(vec[u]) = c}}
      \cup {ListenerName(p) : p \in {q \in Peers : listener_pc[q] = "issue_event"
                                                       /\ listener_conn[q] = c}}

\* C11: at every moment at most one of send_msg, list_peer_conns and the
\* listener is inside the critical section of a connection, and the Mutex
\* names exactly that one; so concurrent send_msg calls on one connection do
\* their sends one after the other, and each call that went for the connection
\* makes exactly one send on it between taking and releasing the lock.
C11_PerConnMutualExclusion ==
    /\ [](\A c \in ConnIds :
             /\ Cardinality(Holders(c)) <= 1
             /\ Holders(c) = IF lock[c] = Free THEN {} ELSE {lock[c]})
    /\ [][\A t \in AllTasks :
            /\ (pc[t] = "send_lock" /\ pc'[t] # "send_lock") =>
                  /\ pc'[t] = "send_do" /\ lock[arg[t]] = Free
                  /\ sent'[t] = << >>
            /\ (pc[t] = "send_do" /\ pc'[t] # "send_do") =>
                  /\ Len(sent'[t]) = 1 /\ sent'[t][1][1] = arg[t]
                  /\ lock[arg[t]] = TaskName(t) /\ lock'[arg[t]] = Free
       ]_vars

\* two send_msg calls go for the only connection at the same time: one is
\* sending, the other waits for the lock
C11_Witness ==
    /\ DOMAIN conns["A"] = {local_conn_id}
    /\ \E t, u \in AllTasks :
          /\ t # u
          /\ pc[t] = "send_do" /\ arg[t] = local_peer_conn
          /\ pc[u] = "send_lock" /\ arg[u] = local_peer_conn

\* C10: a send_msg call invokes PeerConn::send_msg at most once, on the handle
\* it picked from the registry at its lookup; it returns that invocation's
\* outcome as it is, and no step of send_msg changes the registry, the channel
\* or the event log.
C10_SendSingleAttempt ==
    [][\A t \in Tasks :
          /\ (pc[t] = "idle" /\ pc'[t] = "send_lock") =>
                arg'[t] \in Range(conns[self_peer'[t]]) /\ sent'[t] = << >>
          /\ (pc[t] \in {"send_lock", "send_do"} /\ pc'[t] # pc[t]) =>
                /\ UNCHANGED <<conns, close_event_chan, events, notifier>>
                /\ Len(sent'[t]) <= 1
                /\ arg'[t] \in {arg[t], None}
          /\ (pc[t] = "send_do" /\ pc'[t] # "send_do") =>
                /\ pc'[t] = "idle"
                /\ Len(sent'[t]) = 1
                /\ sent'[t][1][1] = arg[t]
                /\ result'[t] = sent'[t][1][2]
      ]_vars

\* send_msg has returned the transport error of the one connection it tried
\* while another connection is registered; the failed one is still registered
\* and nothing is on the channel
C10_Witness ==
    \E t \in Tasks :
       /\ pc[t] = "idle" /\ result[t] = <<"Err", "Transport">>
       /\ Len(sent[t]) = 1
       /\ DOMAIN conns["A"] = ConnIds
       /\ close_event_chan["A"] = << >>
       /\ \A c \in ConnIds : notifier[c] = "idle"

====
